---------------------------- MODULE Spec2Model ----------------------------
(***************************************************************************)
(* Model of the autoinbox-AI email pipeline:                               *)
(*   src/src/ai/ollama_client.py      OllamaClient (Generation Service)    *)
(*   src/src/email/gmail_client.py    GmailClient  (Mailbox Service)       *)
(*   src/src/email/email_processor.py EmailProcessor (pipeline, cleaner,   *)
(*                                    send path, stats)                    *)
(*   src/main.py                      command loop                         *)
(*                                                                         *)
(* Texts are sequences of one-character strings, so that the regular       *)
(* expressions of the source are computed position by position.            *)
(***************************************************************************)
EXTENDS Integers, Sequences, FiniteSets

(***************************************************************************)
(* Characters.  DOTTED_I stands for U+0130 (capital I with dot above), the *)
(* one non-ASCII character of the model's alphabet: Python's re.IGNORECASE *)
(* matches it against "I"/"i", and str.upper() leaves it unchanged.        *)
(* PROMPT stands for the whole prompt text when the service echoes it.     *)
(***************************************************************************)
DOTTED_I == "U+0130"
PROMPT == "<<prompt>>"

Uppers == <<"A","B","C","D","E","F","G","H","I","J","K","L","M",
            "N","O","P","Q","R","S","T","U","V","W","X","Y","Z">>
Lowers == <<"a","b","c","d","e","f","g","h","i","j","k","l","m",
            "n","o","p","q","r","s","t","u","v","w","x","y","z">>
Digits == <<"0","1","2","3","4","5","6","7","8","9">>

IndexIn(seq, c) == IF \E k \in 1..Len(seq) : seq[k] = c
                   THEN CHOOSE k \in 1..Len(seq) : seq[k] = c
                   ELSE 0

\* the case folding re.IGNORECASE compares with
Lower(c) == IF IndexIn(Uppers, c) > 0 THEN Lowers[IndexIn(Uppers, c)]
            ELSE IF c = DOTTED_I THEN "i"
            ELSE c

\* str.upper(), character by character
Upper(c) == IF IndexIn(Lowers, c) > 0 THEN Uppers[IndexIn(Lowers, c)] ELSE c

UpperText(s) == [k \in 1..Len(s) |-> Upper(s[k])]

IsSpace(c) == c \in {" ", "\n", "\t", "\r"}
IsDigit(c) == IndexIn(Digits, c) > 0

\* pattern p matches text s at position i (literal, case-sensitive)
MatchAt(s, i, p) ==
    /\ i >= 1
    /\ i + Len(p) - 1 <= Len(s)
    /\ \A k \in 1..Len(p) : s[i + k - 1] = p[k]

\* pattern p matches text s at position i under re.IGNORECASE
MatchAtI(s, i, p) ==
    /\ i >= 1
    /\ i + Len(p) - 1 <= Len(s)
    /\ \A k \in 1..Len(p) : Lower(s[i + k - 1]) = Lower(p[k])

Min(S) == CHOOSE x \in S : \A y \in S : x <= y
Max(S) == CHOOSE x \in S : \A y \in S : x >= y

\* first position >= i of s that holds no whitespace (Len(s)+1 if none):
\* where a greedy \s* starting at i stops
SkipSpace(s, i) ==
    Min({j \in i..(Len(s) + 1) : j = Len(s) + 1 \/ ~IsSpace(s[j])})

\* first position >= i of s that holds no digit: where a greedy \d+ stops
SkipDigits(s, i) ==
    Min({j \in i..(Len(s) + 1) : j = Len(s) + 1 \/ ~IsDigit(s[j])})

\* first position >= i of s holding a newline (Len(s)+1 if none):
\* where a greedy .* starting at i stops
LineEnd(s, i) ==
    Min({j \in i..(Len(s) + 1) : j = Len(s) + 1 \/ s[j] = "\n"})

\* str.strip()
Strip(s) ==
    LET keep == {j \in 1..Len(s) : ~IsSpace(s[j])}
    IN  IF keep = {} THEN <<>> ELSE SubSeq(s, Min(keep), Max(keep))

\* int() of a run of decimal digits
RECURSIVE ToInt(_)
ToInt(d) == IF d = <<>> THEN 0
            ELSE 10 * ToInt(SubSeq(d, 1, Len(d) - 1)) + (IndexIn(Digits, d[Len(d)]) - 1)

(***************************************************************************)
(* OllamaClient                                                            *)
(***************************************************************************)
T_Category == <<"C","a","t","e","g","o","r","y",":">>
T_Confidence == <<"C","o","n","f","i","d","e","n","c","e",":">>
T_Rationale == <<"R","a","t","i","o","n","a","l","e",":">>
URGENT == <<"U","R","G","E","N","T">>
IMPORTANT == <<"I","M","P","O","R","T","A","N","T">>
LOW_PRIORITY == <<"L","O","W","_","P","R","I","O","R","I","T","Y">>
CategoryTokens == <<URGENT, IMPORTANT, LOW_PRIORITY>>
Categories == {URGENT, IMPORTANT, LOW_PRIORITY}

\* An outcome of client.generate: the call raised, or it returned a text
\* (echoed: the text is preceded by the prompt it answers).
Failure == [ok |-> FALSE, echoed |-> FALSE, text |-> <<>>]
Response(t) == [ok |-> TRUE, echoed |-> FALSE, text |-> t]
Echoed(t) == [ok |-> TRUE, echoed |-> TRUE, text |-> t]

\* _generate as it would be if the handler returned the error message
_generate_error_text(outcome) ==
    IF ~outcome.ok THEN <<"E","r","r","o","r">>
    ELSE LET response == IF outcome.echoed THEN <<PROMPT>> \o outcome.text
                         ELSE outcome.text
             at == {j \in 1..Len(response) : response[j] = PROMPT}
         IN  IF at # {}
             THEN Strip(SubSeq(response, Max(at) + 1, Len(response)))
             ELSE Strip(response)

\* OllamaClient._generate: "" on any exception, else the response with the
\* echoed prompt cut off (everything after its last occurrence), stripped.
_generate(outcome) ==
    IF ~outcome.ok THEN <<>>
    ELSE LET response == IF outcome.echoed THEN <<PROMPT>> \o outcome.text
                         ELSE outcome.text
             at == {j \in 1..Len(response) : response[j] = PROMPT}
         IN  IF at # {}
             THEN Strip(SubSeq(response, Max(at) + 1, Len(response)))
             ELSE Strip(response)

\* the token the category pattern captures when it matches at position i:
\* Category:\s*(URGENT|IMPORTANT|LOW_PRIORITY) under re.IGNORECASE
CategoryTokenAt(response, i) ==
    LET j == SkipSpace(response, i + Len(T_Category))
        hit == {k \in 1..Len(CategoryTokens) : MatchAtI(response, j, CategoryTokens[k])}
    IN  IF MatchAtI(response, i, T_Category) /\ hit # {}
        THEN SubSeq(response, j, j + Len(CategoryTokens[Min(hit)]) - 1)
        ELSE <<>>

\* re.search: the leftmost position where the pattern matches, 0 if none
category_match(response) ==
    LET at == {i \in 1..Len(response) : CategoryTokenAt(response, i) # <<>>}
    IN  IF at = {} THEN 0 ELSE Min(at)

\* Confidence:\s*(\d+), case-sensitive
ConfidenceDigitsAt(response, i) ==
    LET j == SkipSpace(response, i + Len(T_Confidence))
    IN  IF MatchAt(response, i, T_Confidence)
        THEN SubSeq(response, j, SkipDigits(response, j) - 1)
        ELSE <<>>

confidence_match(response) ==
    LET at == {i \in 1..Len(response) : ConfidenceDigitsAt(response, i) # <<>>}
    IN  IF at = {} THEN 0 ELSE Min(at)

\* Rationale:\s*(.*), case-sensitive; "." stops at a newline
rationale_match(response) ==
    LET at == {i \in 1..Len(response) : MatchAt(response, i, T_Rationale)}
    IN  IF at = {} THEN 0 ELSE Min(at)

RationaleGroup(response, i) ==
    LET j == SkipSpace(response, i + Len(T_Rationale))
    IN  SubSeq(response, j, LineEnd(response, j) - 1)

\* CategoryOf as it would be with another default
CategoryOf_default_important(response, cm) ==
    IF cm > 0 THEN UpperText(CategoryTokenAt(response, cm)) ELSE IMPORTANT

\* line 66: the matched token in upper case, LOW_PRIORITY without a match
CategoryOf(response, cm) ==
    IF cm > 0 THEN UpperText(CategoryTokenAt(response, cm)) ELSE LOW_PRIORITY

\* OllamaClient.categorize_email, from the outcome of its one generate call
categorize_email(outcome) ==
    LET response == _generate(outcome)
        cm == category_match(response)
        fm == confidence_match(response)
        rm == rationale_match(response)
    IN  [category   |-> CategoryOf(response, cm),
         confidence |-> IF fm > 0 THEN ToInt(ConfidenceDigitsAt(response, fm)) ELSE 0,
         rationale  |-> IF rm > 0 THEN Strip(RationaleGroup(response, rm)) ELSE <<>>]

\* OllamaClient.generate_reply: the text of its one generate call
generate_reply(outcome) == _generate(outcome)

(***************************************************************************)
(* EmailProcessor.clean_email_body (the Response Cleaner)                  *)
(***************************************************************************)
T_ThinkOpen == <<"<","t","h","i","n","k",">">>
T_ThinkClose == <<"<","/","t","h","i","n","k",">">>
T_Openers == << <<"L","e","t"," ","m","e">>, <<"I","'","l","l">>,
                <<"I"," ","w","i","l","l">>, <<"H","e","r","e","'","s">>,
                <<"H","e","r","e"," ","i","s">> >>
T_ThinkingProcess == <<"t","h","i","n","k","i","n","g"," ","p","r","o","c","e","s","s">>
T_ThoughtProcess == <<"t","h","o","u","g","h","t"," ","p","r","o","c","e","s","s">>
T_BoldSubject == <<"*","*","S","u","b","j","e","c","t",":","*","*">>
T_BoldCategory == <<"*","*","C","a","t","e","g","o","r","y",":","*","*">>

\* re.sub(r'<think>.*?</think>', '', text, flags=re.DOTALL): the leftmost
\* start marker that has an end marker after it, up to the nearest such end
\* marker; the scan resumes behind the match.
RECURSIVE RemoveThink(_)
RemoveThink(text) ==
    LET closes(i) == {j \in (i + Len(T_ThinkOpen))..Len(text) : MatchAt(text, j, T_ThinkClose)}
        opens == {i \in 1..Len(text) : MatchAt(text, i, T_ThinkOpen) /\ closes(i) # {}}
    IN  IF opens = {} THEN text
        ELSE LET i == Min(opens)
                 j == Min(closes(i))
             IN  SubSeq(text, 1, i - 1)
                   \o RemoveThink(SubSeq(text, j + Len(T_ThinkClose), Len(text)))

\* whether one line (no newline in it) is matched by the line pattern `kind`
LineMatches(kind, line) ==
    CASE kind = "opener" ->
           \E k \in 1..Len(T_Openers) : MatchAt(line, 1, T_Openers[k])
      [] kind = "thinking" ->
           \E i \in 1..Len(line) : MatchAtI(line, i, T_ThinkingProcess)
      [] kind = "thought" ->
           \E i \in 1..Len(line) : MatchAtI(line, i, T_ThoughtProcess)
      [] kind = "subject" -> MatchAt(line, 1, T_BoldSubject)
      [] kind = "category" -> MatchAt(line, 1, T_BoldCategory)

\* re.sub(<line pattern>, '', text, flags=re.MULTILINE): every matched line
\* is emptied, its newline stays
RECURSIVE RemoveLines(_, _)
RemoveLines(kind, text) ==
    LET e == LineEnd(text, 1)
        line == SubSeq(text, 1, e - 1)
        kept == IF LineMatches(kind, line) THEN <<>> ELSE line
    IN  IF e > Len(text) THEN kept
        ELSE kept \o <<"\n">> \o RemoveLines(kind, SubSeq(text, e + 1, Len(text)))

\* re.sub(r'\n\s*\n', '\n\n', text): from the leftmost newline that is
\* followed by whitespace up to another newline, through the last newline of
\* that whitespace run
RECURSIVE CollapseBlank(_)
CollapseBlank(text) ==
    LET ends(i) == {j \in (i + 1)..(SkipSpace(text, i + 1) - 1) : text[j] = "\n"}
        starts == {i \in 1..Len(text) : text[i] = "\n" /\ ends(i) # {}}
    IN  IF starts = {} THEN text
        ELSE LET i == Min(starts)
                 j == Max(ends(i))
             IN  SubSeq(text, 1, i - 1) \o <<"\n", "\n">>
                   \o CollapseBlank(SubSeq(text, j + 1, Len(text)))

clean_email_body(text) ==
    LET t1 == RemoveThink(text)
        t2 == RemoveLines("opener", t1)
        t3 == RemoveLines("thinking", t2)
        t4 == RemoveLines("thought", t3)
        t5 == RemoveLines("subject", t4)
        t6 == RemoveLines("category", t5)
        t7 == CollapseBlank(t6)
    IN  Strip(t7)

(***************************************************************************)
(* Bounds of the model                                                     *)
(***************************************************************************)
\* largest fetch limit passed to process_emails
MaxBatch == 2
\* rows the Processed Record store may hold before no further batch starts
MaxRows == 2

(***************************************************************************)
(* The environment: the mailbox and the outcomes of the two services       *)
(***************************************************************************)
EmailIds == {"m1", "m2"}
Recipients == {"sam@example.org"}
\* Python's None (no text: a text holds one-character strings only)
NONE == <<"None">>
\* a path at which no file exists
NoFile == [exists |-> FALSE]
\* datetime.now().isoformat(); the clock is not modelled
NOW == <<"n","o","w">>

\* the messages of the mailbox, as fetch_emails builds them
Message(id) ==
    [id |-> id, subject |-> <<"H","i">>, sender |-> <<"p","@","x">>,
     date |-> <<"d">>, body |-> <<"h","i">>]

\* what messages().list can return: the identifiers, most recent first
Listings == {<<>>, <<"m1">>, <<"m2">>, <<"m1", "m2">>, <<"m2", "m1">>}

\* GmailClient.fetch_emails: at most `limit` messages of the listing
fetch_emails(limit, listing) ==
    [k \in 1..(IF Len(listing) < limit THEN Len(listing) ELSE limit)
        |-> Message(listing[k])]

\* texts the Generation Service answers a classify prompt with
UrgentAnswer ==
    <<"C","a","t","e","g","o","r","y",":"," ","u","r","g","e","n","t","\n",
      "C","o","n","f","i","d","e","n","c","e",":"," ","8","7","\n",
      "R","a","t","i","o","n","a","l","e",":"," ","d","u","e">>
DottedAnswer ==
    <<"C","a","t","e","g","o","r","y",":"," ",DOTTED_I,"M","P","O","R","T","A","N","T">>

\* a text the Generation Service answers a reply prompt with
ReplyAnswer ==
    <<"<","t","h","i","n","k",">","r","<","/","t","h","i","n","k",">",
      "H","e","r","e","'","s"," ","i","t",".","\n",
      "D","e","a","r"," ","S","a","m",",","\n","\n","\n","B","e","s","t">>

\* outcomes of drafts().create and of messages().send: done, or an exception
ApiOutcomes == {"ok", "quota exceeded"}

Outcomes(classify, reply, api) == [classify |-> classify, reply |-> reply, api |-> api]

\* what the services do for one email of a batch (the generate call of
\* categorize_email, the one of generate_reply, drafts().create): all
\* work, one generate call fails, all fail, the classify answer is unusual
ServiceOutcomes ==
    { Outcomes(Response(UrgentAnswer), Echoed(ReplyAnswer), "ok"),
      Outcomes(Failure, Echoed(ReplyAnswer), "ok"),
      Outcomes(Response(UrgentAnswer), Failure, "ok"),
      Outcomes(Failure, Failure, "quota exceeded"),
      Outcomes(Response(DottedAnswer), Echoed(ReplyAnswer), "ok") }

\* GmailClient.create_draft: never raises
create_draft(outcome) ==
    IF outcome = "ok"
    THEN [id |-> <<"r","1">>, message_id |-> "message-id",
          status |-> "draft_created", email |-> "me@example.org"]
    ELSE [status |-> "error", error |-> outcome]

\* GmailClient.send_email: never raises
send_email(to, subject, body, outcome) ==
    IF outcome = "ok"
    THEN [id |-> "sent-id", threadId |-> "thread-id", status |-> "sent"]
    ELSE [status |-> "error", error |-> outcome]

\* dict.get(key) of a result dictionary
Get(d, key) == IF key \in DOMAIN d THEN d[key] ELSE NONE

(***************************************************************************)
(* The two stores                                                          *)
(***************************************************************************)
\* the columns of emails.csv, in the key order of processed_email
Columns == <<"id", "subject", "sender", "date", "body", "category", "confidence",
             "rationale", "draft_reply", "draft_id", "processed_at">>

\* DataFrame.to_csv writes None as the empty field
CsvField(v) == IF v = NONE THEN <<>> ELSE v

\* one line of emails.csv; draft_id is the one value that can be None
CsvRow(email) ==
    [k \in 1..Len(Columns) |->
        IF Columns[k] = "draft_id" THEN CsvField(email.draft_id)
        ELSE email[Columns[k]]]

\* _save_email as it would be if the record were not written
_save_email_skipped(file, email) == file

\* EmailProcessor._save_email: the file after the call; a file that does
\* not exist (<<>>) is created with the header line
_save_email(file, email) ==
    IF file # <<>> THEN Append(file, CsvRow(email))
    ELSE <<Columns, CsvRow(email)>>

\* EmailProcessor._save_draft: the content of draft_<id>.json
DraftOf(email) ==
    [email_id |-> email.id, subject |-> email.subject,
     draft_reply |-> email.draft_reply, category |-> email.category,
     confidence |-> email.confidence, rationale |-> email.rationale,
     created_at |-> email.processed_at]

\* pandas.read_csv: the first line names the columns, the others are rows
read_csv(file) ==
    [columns |-> file[1], rows |-> SubSeq(file, 2, Len(file))]

\* the missing value of pandas (no text)
NaN == <<"NaN">>

\* df[name]: the column of a frame; an empty field reads back as NaN
Column(df, name) ==
    LET c == IndexIn(df.columns, name)
    IN  [k \in 1..Len(df.rows) |-> IF df.rows[k][c] = <<>> THEN NaN ELSE df.rows[k][c]]

\* value_counts as it would be with a counter for each of the three categories
value_counts_zero_filled(col) ==
    [v \in Categories |-> Cardinality({k \in 1..Len(col) : col[k] = v})]

\* Series.value_counts().to_dict(): the values present (NaN dropped), counted
value_counts(col) ==
    LET present == {col[k] : k \in 1..Len(col)} \ {NaN}
    IN  [v \in present |-> Cardinality({k \in 1..Len(col) : col[k] = v})]

ZeroCategories == [c \in Categories |-> 0]

(***************************************************************************)
(* State                                                                   *)
(***************************************************************************)
VARIABLES
    emails_csv,        \* emails.csv: <<>> (no file) or header line + rows
    drafts,            \* active partition: id -> content of draft_<id>.json
    sent,              \* sent partition: id -> content of sent/sent_<id>.json
    outbox,            \* Mailbox: the messages it has sent, each with the
                       \* identifier of the draft it was sent for
    appended,          \* every record handed to _save_email so far, in order
    pc,                \* position of the command loop / of process_emails
    emails,            \* process_emails: the fetched list
    i,                 \* process_emails: index of the email of the loop
    processed_emails,  \* process_emails: local list
    categories,        \* process_emails: local counters
    processed_email,   \* process_emails: record of the current email
    service_log,       \* outcomes of the services, one entry per loop pass
    ret,               \* the last call: operation, arguments, result
    probe              \* a pure function applied to a drawn input

vars == <<emails_csv, drafts, sent, outbox, appended, pc, emails, i, processed_emails,
          categories, processed_email, service_log, ret, probe>>

stores == <<emails_csv, drafts, sent, outbox, appended>>
locals == <<emails, i, processed_emails, categories, processed_email, service_log>>

NoValue == [status |-> "none"]
NoRecord == [id |-> ""]

NoCall == [op |-> "none", draft_id |-> "", confirm |-> FALSE, status |-> "none",
           value |-> NoValue, send_called |-> FALSE, send_result |-> NoValue]

Call(op, draft_id, confirm, status, value, send_called, send_result) ==
    [op |-> op, draft_id |-> draft_id, confirm |-> confirm, status |-> status,
     value |-> value, send_called |-> send_called, send_result |-> send_result]

NoProbe == [fn |-> "none", input |-> <<>>, output |-> <<>>]

\* EmailProcessor.__init__ on empty storage directories
InitProgram ==
    /\ emails_csv = <<>>
    /\ drafts = [id \in EmailIds |-> NoFile]
    /\ sent = [id \in EmailIds |-> NoFile]
    /\ outbox = <<>>
    /\ appended = <<>>
    /\ pc = "idle"
    /\ emails = <<>>
    /\ i = 0
    /\ processed_emails = <<>>
    /\ categories = ZeroCategories
    /\ processed_email = NoRecord
    /\ service_log = <<>>
    /\ ret = NoCall

Init ==
    /\ InitProgram
    /\ probe = NoProbe

\* the locals of process_emails are gone once it returned or raised
LocalsGone ==
    /\ emails' = <<>>
    /\ i' = 0
    /\ processed_emails' = <<>>
    /\ categories' = ZeroCategories
    /\ processed_email' = NoRecord
    /\ service_log' = <<>>

DataRows(file) == IF file = <<>> THEN 0 ELSE Len(file) - 1

(***************************************************************************)
(* EmailProcessor.process_emails, one action per step                      *)
(***************************************************************************)
\* lines 50-54: fetch, initialise the locals
process_emails_fetch(limit, listing) ==
    /\ pc = "idle"
    /\ DataRows(emails_csv) + Len(fetch_emails(limit, listing)) <= MaxRows
    /\ emails' = fetch_emails(limit, listing)
    /\ i' = 1
    /\ processed_emails' = <<>>
    /\ categories' = ZeroCategories
    /\ processed_email' = NoRecord
    /\ service_log' = <<>>
    /\ pc' = "loop"
    /\ ret' = Call("process_emails", "", FALSE, "running", NoValue, FALSE, NoValue)
    /\ UNCHANGED <<stores, probe>>

\* the record of lines 81-89
ProcessedEmail(email, cat_result, cleaned_reply, draft_result) ==
    [id |-> email.id, subject |-> email.subject, sender |-> email.sender,
     date |-> email.date, body |-> email.body,
     category |-> cat_result.category,
     confidence |-> cat_result.confidence,
     rationale |-> cat_result.rationale,
     draft_reply |-> cleaned_reply,
     draft_id |-> Get(draft_result, "id"),
     processed_at |-> NOW]

\* lines 56-90: classify, count, generate, clean, create the Mailbox draft,
\* build the record.  categories[category] += 1 raises KeyError on a
\* category that is no key of the counters; nothing catches it.
process_emails_iterate(classify, reply, api) ==
    /\ pc = "loop"
    /\ i <= Len(emails)
    /\ LET email == emails[i]
           cat_result == categorize_email(classify)
           category == cat_result.category
           cleaned_reply == clean_email_body(generate_reply(reply))
           draft_result == create_draft(api)
           record == ProcessedEmail(email, cat_result, cleaned_reply, draft_result)
       IN  IF category \notin DOMAIN categories
           THEN /\ pc' = "idle"
                /\ ret' = Call("process_emails", "", FALSE, "raised",
                               [exception |-> "KeyError"], FALSE, NoValue)
                /\ LocalsGone
           ELSE /\ categories' = [categories EXCEPT ![category] = @ + 1]
                /\ processed_email' = record
                /\ processed_emails' = Append(processed_emails, record)
                /\ service_log' = Append(service_log,
                       [classify |-> classify.ok, reply |-> reply.ok, draft |-> api = "ok"])
                /\ pc' = "save_email"
                /\ UNCHANGED <<emails, i, ret>>
    /\ UNCHANGED <<stores, probe>>

\* line 93
process_emails_save_email ==
    /\ pc = "save_email"
    /\ emails_csv' = _save_email(emails_csv, processed_email)
    /\ appended' = Append(appended, processed_email)
    /\ pc' = "save_draft"
    /\ UNCHANGED <<drafts, sent, outbox, locals, ret, probe>>

\* lines 94-101: write draft_<id>.json, report, next email
process_emails_save_draft ==
    /\ pc = "save_draft"
    /\ drafts' = [drafts EXCEPT ![processed_email.id] = DraftOf(processed_email)]
    /\ i' = i + 1
    /\ pc' = "loop"
    /\ UNCHANGED <<emails_csv, sent, outbox, appended, emails, processed_emails, categories,
                   processed_email, service_log, ret, probe>>

\* lines 104-110
process_emails_return ==
    /\ pc = "loop"
    /\ i > Len(emails)
    /\ ret' = Call("process_emails", "", FALSE, "returned",
                   [total_emails |-> Len(processed_emails),
                    categories |-> categories,
                    processed_at |-> NOW],
                   FALSE, NoValue)
    /\ pc' = "idle"
    /\ LocalsGone
    /\ UNCHANGED <<stores, probe>>

\* main.py: an interrupt during the batch ends the program; the stores stay
\* and the next run starts from them
Interrupt ==
    /\ pc # "idle"
    /\ pc' = "idle"
    /\ ret' = Call("process_emails", "", FALSE, "raised",
                   [exception |-> "KeyboardInterrupt"], FALSE, NoValue)
    /\ LocalsGone
    /\ UNCHANGED <<stores, probe>>

(***************************************************************************)
(* EmailProcessor.send_drafted_email                                       *)
(***************************************************************************)
\* line 188: os.path.exists(draft_path)
DraftExists(draft_id) == drafts[draft_id] # NoFile

\* IsPreview as it would be if the confirm flag were not looked at
IsPreview_never(confirm) == FALSE

\* line 198: the preview branch is taken
IsPreview(confirm) == ~confirm

\* SendSucceeded as it would be if the status were not looked at
SendSucceeded_always(result) == TRUE

\* line 216: the send result counts as a success
SendSucceeded(result) == result.status = "sent"

\* ActiveAfterRename as it would be if the file were copied, not moved
ActiveAfterCopy(draft_id) == drafts

\* line 219: os.rename(draft_path, sent_path), the active partition after it
ActiveAfterRename(draft_id) == [drafts EXCEPT ![draft_id] = NoFile]

\* line 219: os.rename(draft_path, sent_path), the sent partition after it
SentAfterRename(draft_id) == [sent EXCEPT ![draft_id] = drafts[draft_id]]

DraftNotFound == [status |-> "error", error |-> "Draft not found"]

\* lines 199-206
Preview(recipient, draft, cleaned_body) ==
    [status |-> "preview",
     preview |-> [to |-> recipient, subject |-> draft.subject, body |-> cleaned_body]]

\* what messages().send has delivered once it returned
Delivered(draft_id, to, subject, body) ==
    [draft_id |-> draft_id, to |-> to, subject |-> subject, body |-> body]

send_drafted_email(draft_id, recipient, confirm, api) ==
    /\ pc = "idle"
    /\ IF ~DraftExists(draft_id)
       THEN /\ ret' = Call("send_drafted_email", draft_id, confirm, "returned",
                           DraftNotFound, FALSE, NoValue)
            /\ UNCHANGED <<drafts, sent, outbox>>
       ELSE LET draft == drafts[draft_id]
                cleaned_body == clean_email_body(draft.draft_reply)
                result == send_email(recipient, draft.subject, cleaned_body, api)
            IN  IF IsPreview(confirm)
                THEN /\ ret' = Call("send_drafted_email", draft_id, confirm, "returned",
                                    Preview(recipient, draft, cleaned_body), FALSE, NoValue)
                     /\ UNCHANGED <<drafts, sent, outbox>>
                ELSE /\ ret' = Call("send_drafted_email", draft_id, confirm, "returned",
                                    result, TRUE, result)
                     /\ outbox' = IF api = "ok"
                                  THEN Append(outbox, Delivered(draft_id, recipient,
                                                                draft.subject, cleaned_body))
                                  ELSE outbox
                     /\ IF SendSucceeded(result)
                        THEN /\ drafts' = ActiveAfterRename(draft_id)
                             /\ sent' = SentAfterRename(draft_id)
                        ELSE UNCHANGED <<drafts, sent>>
    /\ UNCHANGED <<emails_csv, appended, pc, locals, probe>>

(***************************************************************************)
(* EmailProcessor.get_daily_stats                                          *)
(***************************************************************************)
\* lines 238-246: the statistics read back from an existing emails.csv
StoredStats(file) ==
    LET df == read_csv(file)
    IN  [total_emails |-> Len(df.rows),
         categories |-> value_counts(Column(df, "category")),
         processed_at |-> NOW]

\* EmptyStats as it would be if the categories were counted from no rows
EmptyStats_counted ==
    [total_emails |-> 0, categories |-> value_counts(<<>>), processed_at |-> NOW]

\* lines 231-236: the statistics returned when emails.csv does not exist
EmptyStats ==
    [total_emails |-> 0,
     categories |-> [c \in {URGENT, IMPORTANT, LOW_PRIORITY} |-> 0],
     processed_at |-> NOW]

get_daily_stats ==
    /\ pc = "idle"
    /\ ret' = Call("get_daily_stats", "", FALSE, "returned",
                   IF emails_csv = <<>> THEN EmptyStats ELSE StoredStats(emails_csv),
                   FALSE, NoValue)
    /\ UNCHANGED <<stores, pc, locals, probe>>

(***************************************************************************)
(* The program: the commands of main.py in any order                       *)
(***************************************************************************)
Next ==
    \/ \E limit \in 0..MaxBatch, listing \in Listings :
          process_emails_fetch(limit, listing)
    \/ \E o \in ServiceOutcomes :
          process_emails_iterate(o.classify, o.reply, o.api)
    \/ process_emails_save_email
    \/ process_emails_save_draft
    \/ process_emails_return
    \/ Interrupt
    \/ \E draft_id \in EmailIds, recipient \in Recipients, confirm \in BOOLEAN,
          api \in ApiOutcomes :
          send_drafted_email(draft_id, recipient, confirm, api)
    \/ get_daily_stats

Spec == Init /\ [][Next]_vars

(***************************************************************************)
(* categorize_email as a function: applied to drawn service outcomes       *)
(***************************************************************************)
CategoryParts ==
    { <<>>,
      <<"C","a","t","e","g","o","r","y",":"," ","u","r","g","e","n","t","\n">>,
      <<"c","a","t","e","g","o","r","y",":","I","M","P","O","R","T","A","N","T","\n">>,
      <<"C","A","T","E","G","O","R","Y",":","\n"," ","l","o","w","_","p","r","i","o","r","i","t","y","\n">>,
      <<"C","a","t","e","g","o","r","y",":"," ",DOTTED_I,"M","P","O","R","T","A","N","T","\n">>,
      <<"C","a","t","e","g","o","r","y",":"," ","h","i","g","h","\n">> }

ConfidenceParts ==
    { <<>>,
      <<"C","o","n","f","i","d","e","n","c","e",":"," ","8","7","\n">>,
      <<"C","o","n","f","i","d","e","n","c","e",":","5"," ">>,
      <<"c","o","n","f","i","d","e","n","c","e",":"," ","9","\n">>,
      <<"C","o","n","f","i","d","e","n","c","e",":"," ","x","\n">> }

RationaleParts ==
    { <<>>,
      <<"R","a","t","i","o","n","a","l","e",":"," ","d","u","e">>,
      <<"R","a","t","i","o","n","a","l","e",":","\n"," ","o","k"," ">>,
      <<"R","a","t","i","o","n","a","l","e",":">> }

CategorizeInputs ==
    {Failure}
    \cup {Response(c \o f \o r) :
            c \in CategoryParts, f \in ConfidenceParts, r \in RationaleParts}
    \cup {Echoed(c \o f) : c \in CategoryParts, f \in ConfidenceParts}

InitCategorize ==
    /\ InitProgram
    /\ probe \in {[fn |-> "categorize_email", input |-> o, output |-> NoValue] :
                    o \in CategorizeInputs}

ApplyCategorize ==
    /\ probe.fn = "categorize_email"
    /\ probe.output = NoValue
    /\ probe' = [probe EXCEPT !.output = categorize_email(probe.input)]
    /\ UNCHANGED <<stores, pc, locals, ret>>

NextCategorize == ApplyCategorize

SpecCategorize == InitCategorize /\ [][NextCategorize]_vars

(***************************************************************************)
(* clean_email_body as a function: applied to drawn reply texts, then      *)
(* applied again to the stored result as send_drafted_email does           *)
(***************************************************************************)
\* what stands before a thinking block: nothing, whitespace, the first half
\* of a start marker, a greeting line
LeadParts ==
    { <<>>,
      <<" ">>,
      <<"<","t","h","i">>,
      <<"H","i",",","\n">> }

\* thinking blocks: none, one, one over two lines, two
BlockParts ==
    { <<>>,
      <<"<","t","h","i","n","k",">","x","<","/","t","h","i","n","k",">">>,
      <<"<","t","h","i","n","k",">","x","\n","y","<","/","t","h","i","n","k",">">>,
      <<"<","t","h","i","n","k",">","x","<","/","t","h","i","n","k",">","\n","<","t","h","i","n","k",">","y","<","/","t","h","i","n","k",">">> }

\* what stands behind: reply text with an opener phrase, the second half of
\* a start marker with an end marker, blank lines, an opener line, metadata
TailParts ==
    { <<"L","e","t"," ","m","e"," ","k","n","o","w">>,
      <<"n","k",">","z","<","/","t","h","i","n","k",">">>,
      <<"D","e","a","r"," ","S","a","m",",","\n","\n","\n","B","e","s","t">>,
      <<"H","e","r","e","'","s"," ","i","t",".","\n","D","e","a","r"," ","S","a","m">>,
      <<"*","*","S","u","b","j","e","c","t",":","*","*"," ","R","e","\n","O","k">>,
      <<"m","y"," ","T","h","o","u","g","h","t"," ","P","r","o","c","e","s","s","\n","O","k">> }

CleanInputs ==
    {l \o b \o t : l \in LeadParts, b \in BlockParts, t \in TailParts}

InitClean ==
    /\ InitProgram
    /\ probe \in {[fn |-> "clean_email_body", input |-> x, output |-> NONE] :
                    x \in CleanInputs}

\* process_emails line 71: the generated reply is cleaned, the result is
\* what the record and the draft file keep as draft_reply
ApplyClean ==
    /\ probe.fn = "clean_email_body"
    /\ probe.output = NONE
    /\ probe' = [probe EXCEPT !.output = clean_email_body(probe.input)]
    /\ UNCHANGED <<stores, pc, locals, ret>>

\* send_drafted_email line 195: the stored draft_reply is cleaned again
ApplyReclean ==
    /\ probe.fn = "clean_email_body"
    /\ probe.output # NONE
    /\ probe' = [fn |-> "send_drafted_email", input |-> probe.output,
                 output |-> clean_email_body(probe.output)]
    /\ UNCHANGED <<stores, pc, locals, ret>>

NextClean == ApplyClean \/ ApplyReclean

SpecClean == InitClean /\ [][NextClean]_vars

(***************************************************************************)
(* Properties                                                              *)
(***************************************************************************)
RECURSIVE SumOver(_, _)
SumOver(f, S) == IF S = {} THEN 0
                 ELSE LET x == CHOOSE y \in S : TRUE
                      IN  f[x] + SumOver(f, S \ {x})

IsPrefix(a, b) == Len(a) <= Len(b) /\ \A k \in 1..Len(a) : a[k] = b[k]

\* the step ends a process_emails call otherwise than by an interrupt
BatchEnds ==
    /\ pc # "idle"
    /\ pc' = "idle"
    /\ ~(ret'.status = "raised" /\ ret'.value.exception = "KeyboardInterrupt")

\* the step is a call of send_drafted_email
SendCall == pc = "idle" /\ ret'.op = "send_drafted_email"

\* rows the running batch has appended to emails.csv so far
SavedInBatch == IF pc = "save_draft" THEN Len(processed_emails)
                ELSE IF pc = "save_email" THEN Len(processed_emails) - 1
                ELSE Len(processed_emails)

\* C1: every process_emails call on N fetched emails returns
\* total_emails = N and a categories mapping with exactly the three keys
\* URGENT, IMPORTANT, LOW_PRIORITY whose values sum to N.
C1_ReturnsCountsOfAllFetched ==
    [][BatchEnds =>
         /\ ret'.status = "returned"
         /\ ret'.value.total_emails = Len(emails)
         /\ DOMAIN ret'.value.categories = Categories
         /\ SumOver(ret'.value.categories, Categories) = Len(emails)]_vars

\* C2: a call send_drafted_email(id, recipient, confirm=False) does not call
\* the Mailbox send operation and changes neither the active nor the sent
\* partition, whatever the state of the draft.
C2_PreviewChangesNothing ==
    [][(SendCall /\ ~ret'.confirm) =>
         /\ ~ret'.send_called
         /\ outbox' = outbox
         /\ drafts' = drafts
         /\ sent' = sent
         /\ ret'.value.status \in {"preview", "error"}
         /\ (ret'.value.status = "error") = (drafts[ret'.draft_id] = NoFile)]_vars

C2_Witness ==
    /\ ret.op = "send_drafted_email"
    /\ ~ret.confirm
    /\ ret.value.status = "preview"
    /\ drafts[ret.draft_id] # NoFile
    /\ sent[ret.draft_id] # NoFile

\* C3: a confirmed send that the Mailbox reports as sent moves the draft from
\* the active to the sent partition, and a send call on the same identifier
\* made right after it returns draft-not-found without calling the Mailbox.
C3_SentDraftLeavesActive ==
    [][/\ (SendCall /\ ret'.confirm /\ ret'.value.status = "sent") =>
             /\ drafts'[ret'.draft_id] = NoFile
             /\ sent'[ret'.draft_id] = drafts[ret'.draft_id]
             /\ drafts[ret'.draft_id] # NoFile
       /\ (/\ SendCall
           /\ ret.op = "send_drafted_email" /\ ret.confirm
           /\ ret.value.status = "sent"
           /\ ret'.draft_id = ret.draft_id) =>
             /\ ret'.value = DraftNotFound
             /\ ~ret'.send_called
             /\ outbox' = outbox]_vars

C3_Witness ==
    /\ ret.op = "send_drafted_email"
    /\ ret.value = DraftNotFound
    /\ sent[ret.draft_id] # NoFile
    /\ \E k \in 1..Len(outbox) : outbox[k].draft_id = ret.draft_id

\* C4: once the Mailbox has sent the draft of an identifier, that identifier
\* is never again in the active partition and is never sent a second time.
C4_SentIsTerminal ==
    \A id \in EmailIds :
        /\ (\E k \in 1..Len(outbox) : outbox[k].draft_id = id) => drafts[id] = NoFile
        /\ Cardinality({k \in 1..Len(outbox) : outbox[k].draft_id = id}) <= 1

\* C5: no failure of classification, reply generation or draft creation
\* aborts a batch: process_emails never ends by an exception of its own, and
\* every email the loop has passed is persisted as a row (with an empty
\* draft identifier when draft creation failed) and as a draft.
C5_NoFailureAbortsBatch ==
    /\ ~(ret.op = "process_emails" /\ ret.status = "raised"
         /\ ret.value.exception # "KeyboardInterrupt")
    /\ pc = "loop" =>
         \A k \in 1..(i - 1) :
            LET row == emails_csv[Len(emails_csv) - (i - 1) + k]
            IN  /\ row = CsvRow(processed_emails[k])
                /\ processed_emails[k].id = emails[k].id
                /\ ~service_log[k].draft => row[IndexIn(Columns, "draft_id")] = <<>>
                /\ drafts[emails[k].id] = DraftOf(processed_emails[k])

\* C6: when the draft exists and the Mailbox send returns an error, the
\* draft stays in the active partition unchanged, the sent partition is
\* unchanged, and the caller gets exactly the Mailbox's error result.
C6_FailedSendKeepsDraft ==
    [][(SendCall /\ ret'.send_called /\ ret'.send_result.status = "error") =>
         /\ drafts' = drafts
         /\ drafts[ret'.draft_id] # NoFile
         /\ sent' = sent
         /\ outbox' = outbox
         /\ ret'.value = ret'.send_result]_vars

C6_Witness ==
    /\ ret.op = "send_drafted_email"
    /\ ret.send_called
    /\ ret.send_result.status = "error"
    /\ ret.value = [status |-> "error", error |-> "quota exceeded"]
    /\ drafts[ret.draft_id] # NoFile

\* C7: the Processed Record store only grows at its end, and each
\* process_emails call adds exactly one row per fetched email, in fetch
\* order.
C7_AppendOnlyOneRowPerEmail ==
    [][/\ IsPrefix(emails_csv, emails_csv')
       /\ BatchEnds =>
            /\ DataRows(emails_csv) >= Len(emails)
            /\ Len(processed_emails) = Len(emails)
            /\ \A k \in 1..Len(emails) :
                 emails_csv[Len(emails_csv) - Len(emails) + k][IndexIn(Columns, "id")]
                   = emails[k].id]_vars

\* the response holds no 'Category:' followed by one of the three tokens
NoParseableCategory(outcome) == category_match(_generate(outcome)) = 0

Categorized ==
    /\ probe.fn = "categorize_email"
    /\ probe.output # NoValue

C9_GenerationFailureDegrades ==
    pc \in {"loop", "save_email", "save_draft"} =>
      /\ Len(service_log) = Len(processed_emails)
      /\ \A c \in Categories :
            categories[c] = Cardinality({k \in 1..Len(processed_emails) :
                                            processed_emails[k].category = c})
      /\ \A k \in 1..Len(processed_emails) :
            LET e == processed_emails[k]
            IN  /\ ~service_log[k].classify =>
                     /\ e.category = LOW_PRIORITY
                     /\ e.confidence = 0
                     /\ e.rationale = <<>>
                /\ ~service_log[k].reply => e.draft_reply = <<>>
                /\ k <= SavedInBatch =>
                     /\ appended[Len(appended) - SavedInBatch + k] = e
                     /\ emails_csv[Len(emails_csv) - SavedInBatch + k] = CsvRow(e)
                /\ k < i => drafts[e.id] = DraftOf(e)

C9_Witness ==
    /\ pc = "loop"
    /\ i = 2
    /\ ~service_log[1].classify
    /\ ~service_log[1].reply
    /\ categories[LOW_PRIORITY] = 1
    /\ drafts[emails[1].id] # NoFile
    /\ drafts[emails[1].id].draft_reply = <<>>
    /\ drafts[emails[1].id].category = LOW_PRIORITY

\* C10: with a non-empty store, get_daily_stats returns the number of rows
\* appended so far as total_emails, and as categories exactly the categories
\* of those rows, each with its number of rows.
C10_StatsCountStoredRows ==
    (ret.op = "get_daily_stats" /\ appended # <<>>) =>
        LET present == {appended[k].category : k \in 1..Len(appended)}
            counts == ret.value.categories
        IN  /\ ret.value.total_emails = Len(appended)
            /\ DOMAIN counts = present
            /\ \A c \in present :
                 /\ counts[c] = Cardinality({k \in 1..Len(appended) :
                                                appended[k].category = c})
                 /\ counts[c] > 0
            /\ SumOver(counts, present) = ret.value.total_emails

C10_Witness ==
    /\ ret.op = "get_daily_stats"
    /\ Len(appended) = 2
    /\ ret.value.total_emails = 2
    /\ DOMAIN ret.value.categories = {URGENT}

\* C11: get_daily_stats on an empty Processed Record store (emails.csv does
\* not exist) returns total_emails 0 and a categories mapping with exactly
\* the keys URGENT, IMPORTANT and LOW_PRIORITY, each 0, and the call neither
\* creates emails.csv nor changes the active or the sent partition.
C11_EmptyStoreStatsAllZero ==
    [][(pc = "idle" /\ ret'.op = "get_daily_stats" /\ emails_csv = <<>>) =>
         /\ ret'.status = "returned"
         /\ ret'.value.total_emails = 0
         /\ DOMAIN ret'.value.categories = Categories
         /\ \A c \in Categories : ret'.value.categories[c] = 0
         /\ emails_csv' = <<>>
         /\ drafts' = drafts
         /\ sent' = sent]_vars

C11_Witness ==
    /\ ret.op = "get_daily_stats"
    /\ emails_csv = <<>>
    /\ ret.value.total_emails = 0
    /\ ret.value.categories[IMPORTANT] = 0

\* C12: clean_email_body is idempotent: cleaning a cleaned text returns it
\* unchanged, for every input; so the text send_drafted_email sends (the
\* stored draft_reply cleaned again) is the stored draft_reply.
C12_CleanIsIdempotent ==
    /\ (probe.fn = "clean_email_body" /\ probe.output # NONE) =>
          clean_email_body(probe.output) = probe.output
    /\ probe.fn = "send_drafted_email" => probe.output = probe.input

\* the thinking blocks of a text: a start marker and the nearest end marker
\* behind it, as positions of the two markers
ThinkBlocks(text) ==
    {b \in (1..Len(text)) \X (1..Len(text)) :
        /\ MatchAt(text, b[1], T_ThinkOpen)
        /\ b[2] >= b[1] + Len(T_ThinkOpen)
        /\ MatchAt(text, b[2], T_ThinkClose)
        /\ \A j \in (b[1] + Len(T_ThinkOpen))..(b[2] - 1) :
              ~MatchAt(text, j, T_ThinkClose)}

\* what stands between the markers of the blocks of a text
ThinkContents(text) ==
    {SubSeq(text, b[1] + Len(T_ThinkOpen), b[2] - 1) : b \in ThinkBlocks(text)}

Contains(text, part) ==
    \E k \in 1..(Len(text) - Len(part) + 1) : MatchAt(text, k, part)

\* C13: for every input with one or more paired thinking blocks, the output
\* of clean_email_body contains none of the content that stood between a
\* start marker and its end marker and no complete start/end marker pair,
\* also for a block over several lines and for several blocks.
C13_NoThinkingBlockLeft ==
    (/\ probe.fn = "clean_email_body"
     /\ probe.output # NONE
     /\ ThinkBlocks(probe.input) # {}) =>
        /\ \A c \in ThinkContents(probe.input) \ {<<>>} :
              ~Contains(probe.output, c)
        /\ ThinkBlocks(probe.output) = {}

\* rows of emails.csv that hold the identifier
RowsOf(id) ==
    {k \in 2..Len(emails_csv) : emails_csv[k][IndexIn(Columns, "id")] = id}

\* C14: in every reachable state, also between the steps of a batch and
\* after an interrupted batch, every identifier with a draft in the active
\* or in the sent partition has at least one row in emails.csv.
C14_DraftImpliesRecord ==
    \A id \in EmailIds :
        (drafts[id] # NoFile \/ sent[id] # NoFile) => RowsOf(id) # {}

\* one draft is sent; the batch of another email has appended its record
\* and not yet written its draft
C14_Witness ==
    \E a, b \in EmailIds :
        /\ sent[a] # NoFile
        /\ RowsOf(a) # {}
        /\ pc = "save_draft"
        /\ processed_email.id = b
        /\ drafts[b] = NoFile
        /\ sent[b] = NoFile
        /\ RowsOf(b) # {}

=============================================================================
